---- MODULE Spec2Model ----
(***************************************************************************)
(* A model of the PDF extraction pipeline (src/pdf_extractor.py) and of    *)
(* the sheet-name cleaning of the exporter (src/data_exporter.py).         *)
(*                                                                         *)
(* A Python str is a sequence of one-character strings. A value that may  *)
(* be None, or a library call that may raise, is a tagged tuple: PyNone,   *)
(* Str(s), List(xs) or Raise.                                              *)
(***************************************************************************)
EXTENDS Integers, Sequences, FiniteSets, TLC

VARIABLES
    fs,                 \* the paths that resolve to an existing file
    _extraction_mode,   \* self._extraction_mode
    mode_at_entry,      \* self._extraction_mode when the latest call began
    pc,                 \* where the running call is ("done": it has returned,
                        \* "idle": its caller has dropped the result)
    op,                 \* the public method called last
    pdf_path,           \* its argument
    doc,                \* the document behind pdf_path, as the libraries see it
    pdf_type,           \* local pdf_type of the latest call that classified
    page_num,           \* pages the running loop has finished
    all_text,           \* local all_text of _extract_text_digital/_scanned
    ocr_out,            \* what pytesseract returned for each page of this call
    page_tables,        \* what page.extract_tables() returned for each page
    all_tables,         \* local all_tables of _extract_tables_digital
    ret,                \* how the latest call ended and the value it returned
    log,                \* the levels logged by the latest call, in order
    req,                \* the /extract request the web layer is handling
    fn,                 \* pure-function harness: the function applied
    arg,                \* pure-function harness: its argument
    res                 \* pure-function harness: its result

vars == <<fs, _extraction_mode, mode_at_entry, pc, op, pdf_path, doc, pdf_type, page_num,
          all_text, ocr_out, page_tables, all_tables, ret, log, req, fn, arg, res>>

pipeVars == <<fs, _extraction_mode, mode_at_entry, pc, op, pdf_path, doc, pdf_type, page_num,
              all_text, ocr_out, page_tables, all_tables, ret, log, req>>

pureVars == <<fn, arg, res>>

----------------------------------------------------------------------------
(* Bounds of the model *)

MaxPages == 2
MaxPad == 1
MaxRun == 2
MaxRequests == 2
MaxUploadPages == 1
MaxTables == 2

(* Program constants *)

TextThreshold == 50
DefaultMaxLength == 31

----------------------------------------------------------------------------
(* Python values and string functions *)

PyNone == <<"None">>
Raise == <<"raise">>
Str(s) == <<"str", s>>
List(xs) == <<"list", xs>>

\* bool(v) of a value that is None, a str or a list
Truthy(v) == v[1] \in {"str", "list"} /\ v[2] # <<>>

Rep(c, n) == [i \in 1..n |-> c]

IsSpace(c) == c \in {" ", "\n", "\t"}

RECURSIVE LStrip(_)
LStrip(s) ==
    IF s = <<>> THEN s
    ELSE IF IsSpace(Head(s)) THEN LStrip(Tail(s)) ELSE s

RECURSIVE RStrip(_)
RStrip(s) ==
    IF s = <<>> THEN s
    ELSE IF IsSpace(s[Len(s)]) THEN RStrip(SubSeq(s, 1, Len(s) - 1)) ELSE s

\* str.strip()
Strip(s) == RStrip(LStrip(s))

\* sep.join(parts)
RECURSIVE Join(_, _)
Join(parts, sep) ==
    IF parts = <<>> THEN <<>>
    ELSE IF Len(parts) = 1 THEN parts[1]
    ELSE parts[1] \o sep \o Join(Tail(parts), sep)

\* s.split(c): the pieces of s between the occurrences of c
RECURSIVE SplitAcc(_, _, _)
SplitAcc(s, c, cur) ==
    IF s = <<>> THEN <<cur>>
    ELSE IF Head(s) = c THEN <<cur>> \o SplitAcc(Tail(s), c, <<>>)
    ELSE SplitAcc(Tail(s), c, Append(cur, Head(s)))

Split(s, c) == SplitAcc(s, c, <<>>)

----------------------------------------------------------------------------
(* The documents and what the libraries answer *)

\* the paths the callers pass: a.pdf is a file, missing.pdf resolves to
\* nothing, and toolong.pdf stands for a path that resolves to nothing and
\* that os.stat refuses with an error other than "no such file" (a name
\* longer than the file system allows, a directory that may not be searched)
Paths == {"a.pdf", "missing.pdf", "toolong.pdf"}
Files == {"a.pdf"}
StatRefused == {"toolong.pdf"}

LongText == Rep("a", TextThreshold + 1)

\* page.extract_text() of one page: None, a text, or an exception
PageTexts == {PyNone, Str(<<>>), Str(<<"b">>), Str(LongText), Raise}

\* a document: whether pdfplumber.open succeeds, and its pages' texts
Docs ==
    [opens : BOOLEAN,
     texts : UNION {[1..n -> PageTexts] : n \in 0..MaxPages}]

NoDoc == [opens |-> FALSE, texts |-> <<>>]

\* pytesseract.image_to_string of one page image (Raise: binarization or
\* recognition failed)
OcrResults ==
    {Raise,
     Str(<<" ", "a", " ", "\n", "\n", "b">>),
     Str(<<"\n", " ">>),
     Str(<<"c">>)}

\* table candidates of the pipeline runs: rows are None or lists of cells
TableA == <<List(<<Str(<<" ", "x">>), PyNone>>), PyNone>>
TableD == <<List(<<PyNone, Str(<<"y", " ">>), Str(<<>>)>>), List(<<Str(<<" ">>)>>)>>
TableB == <<PyNone, List(<<>>)>>
TableC == <<List(<<PyNone, PyNone>>)>>

\* page.extract_tables() of one page
PageTableResults ==
    {Raise, List(<<>>), List(<<TableA>>), List(<<TableB, TableA>>),
     List(<<TableC>>), List(<<TableD>>)}

Sentinel ==
    <<"O", "C", "R", " ", "F", "u", "n", "c", "t", "i", "o", "n",
      "a", "l", "i", "y", " ", "N", "o", "t", " ", "A", "v", "a",
      "i", "l", "a", "b", "l", "e", " ", "O", "n", " ", "T", "h",
      "i", "s", " ", "P", "l", "a", "t", "f", "o", "r", "m">>

----------------------------------------------------------------------------
(* PDFExtractor *)

Self == [_extraction_mode |-> _extraction_mode]

\* how a call ends: the kind of value returned ("raise": an exception left
\* the method; "none": the call still runs or none was made) and the value
RetStr(s) == [kind |-> "str", text |-> s, tables |-> <<>>]
RetList(ts) == [kind |-> "list", text |-> <<>>, tables |-> ts]
RetRaise == [kind |-> "raise", text |-> <<>>, tables |-> <<>>]
RetNone == [kind |-> "none", text |-> <<>>, tables |-> <<>>]

get_extraction_mode == _extraction_mode

\* pdf_path_obj.exists(): True, False, or the OSError of os.stat that
\* pathlib passes on (pathlib turns it into False only from Python 3.14 on)
Exists(p) == p \in fs
ExistsMayRaise(p) == p \in StatRefused

\* the try block of _detect_pdf_type raises
DetectRaises(d) ==
    \/ ~d.opens
    \/ d.texts # <<>> /\ d.texts[1] = Raise

_detect_pdf_type_cached(self, d) ==
    IF self._extraction_mode \in {"digital", "scanned"}
    THEN self._extraction_mode
    ELSE IF DetectRaises(d) \/ d.texts = <<>> THEN "scanned"
    ELSE IF Truthy(d.texts[1]) /\ Len(Strip(d.texts[1][2])) > TextThreshold
         THEN "digital" ELSE "scanned"

_detect_pdf_type_ge(self, d) ==
    IF DetectRaises(d) \/ d.texts = <<>> THEN "scanned"
    ELSE IF Truthy(d.texts[1]) /\ Len(Strip(d.texts[1][2])) >= TextThreshold
         THEN "digital" ELSE "scanned"

_detect_pdf_type(self, d) ==
    IF DetectRaises(d) THEN "scanned"
    ELSE IF d.texts = <<>> THEN "scanned"
    ELSE LET text == d.texts[1] IN
         IF Truthy(text) /\ Len(Strip(text[2])) > TextThreshold
         THEN "digital" ELSE "scanned"

DetectLog(d) == IF DetectRaises(d) THEN <<"warning">> ELSE <<>>

\* what extract_text and extract_tables store in self._extraction_mode
ModeAfterText(path, type) == path
ModeAfterTables(path, type) == type

\* the except clauses of extract_text, extract_tables, _extract_text_scanned
CatchText == RetStr(<<>>)
CatchTables == RetList(<<>>)
ScannedCatchPartial(texts) == Join(texts, <<"\n", "\n">>)
ScannedCatch(texts) == Sentinel

\* the separators of the two joins, and the pages the digital join keeps
DigitalSep == <<"\n">>
ScannedSep == <<"\n", "\n">>
DigitalKeepNotNone(text) == text # PyNone
DigitalKeep(text) == Truthy(text)

\* the cleanup of one page's recognized text
OcrLine(line) == Strip(line)
OcrKeep(line) == Strip(line) # <<>>
CleanOcr(text) ==
    LET kept == SelectSeq(Split(text, "\n"), OcrKeep)
        lines == [i \in 1..Len(kept) |-> OcrLine(kept[i])]
    IN  Join(lines, <<"\n">>)

\* the cleaning of one table candidate
CleanCell(cell) == IF Truthy(cell) THEN Strip(cell[2]) ELSE <<>>
CleanRowDropNull(row) ==
    LET cells == SelectSeq(row[2], Truthy) IN
    [c \in 1..Len(cells) |-> CleanCell(cells[c])]
CleanRow(row) == [c \in 1..Len(row[2]) |-> CleanCell(row[2][c])]
KeepRow(row) == Truthy(row)
CleanTable(table) ==
    LET rows == SelectSeq(table, KeepRow) IN
    [r \in 1..Len(rows) |-> CleanRow(rows[r])]
KeepTable(cleaned_table) == cleaned_table # <<>>
\* the cleaned tables one page adds to all_tables
CleanPageTables(tables) ==
    IF Truthy(tables)
    THEN SelectSeq([t \in 1..Len(tables[2]) |-> CleanTable(tables[2][t])],
                   KeepTable)
    ELSE <<>>

----------------------------------------------------------------------------
(* The pipeline: one extractor, one call at a time *)

PureIdle == fn = "none" /\ arg = <<>> /\ res = <<>>

\* no /extract request: its number, where the handler is, the uploaded
\* document, whether it saved the upload and found it empty, its answer, and
\* whether the cleanup logged a warning
NoRequest ==
    [id |-> 0, at |-> "none", upload |-> NoDoc, saved |-> FALSE, empty |-> FALSE,
     status |-> 0, warned |-> FALSE]

PipeInit ==
    /\ fs = Files
    /\ req = NoRequest
    /\ _extraction_mode = "unknown"
    /\ mode_at_entry = "unknown"
    /\ pc = "idle"
    /\ op = "none"
    /\ pdf_path = "none"
    /\ doc = NoDoc
    /\ pdf_type = "none"
    /\ page_num = 0
    /\ all_text = <<>>
    /\ ocr_out = <<>>
    /\ page_tables = <<>>
    /\ all_tables = <<>>
    /\ ret = RetNone
    /\ log = <<>>

Init == PipeInit /\ PureIdle

\* a call starts: the locals of the previous one are gone
Enter(method, p, d) ==
    /\ pc = "idle"
    /\ op' = method
    /\ mode_at_entry' = _extraction_mode
    /\ pdf_path' = p
    /\ doc' = d
    /\ page_num' = 0
    /\ all_text' = <<>>
    /\ ocr_out' = <<>>
    /\ page_tables' = <<>>
    /\ all_tables' = <<>>
    /\ UNCHANGED <<fs, req, pureVars>>

\* a call ends with the value r
Leave(r) == pc' = "done" /\ ret' = r

\* a step inside a call
Inside ==
    UNCHANGED <<fs, _extraction_mode, mode_at_entry, op, pdf_path, doc, pdf_type,
                req, pureVars>>

\* extract_text, the file is missing
extract_text_missing(p) ==
    /\ ~Exists(p)
    /\ Enter("extract_text", p, NoDoc)
    /\ log' = <<"error">>
    /\ Leave(RetStr(<<>>))
    /\ UNCHANGED <<_extraction_mode, pdf_type>>

\* extract_text, exists() raises: lines 64-67 are outside the try block
extract_text_exists_raises(p) ==
    /\ ExistsMayRaise(p)
    /\ Enter("extract_text", p, NoDoc)
    /\ Leave(RetRaise)
    /\ log' = <<>>
    /\ UNCHANGED <<_extraction_mode, pdf_type>>

\* extract_text, up to the choice of the path
extract_text_classify(p, d) ==
    /\ Exists(p)
    /\ Enter("extract_text", p, d)
    /\ LET type == _detect_pdf_type(Self, d) IN
       /\ pdf_type' = type
       /\ _extraction_mode' = ModeAfterText(p, type)
       /\ pc' = IF type = "digital" THEN "text_digital" ELSE "text_scanned"
    /\ log' = DetectLog(d) \o <<"info">>
    /\ ret' = RetNone

\* _extract_text_digital, one round of the loop over pdf.pages
text_digital_page ==
    /\ pc = "text_digital"
    /\ page_num < Len(doc.texts)
    /\ LET text == doc.texts[page_num + 1] IN
       IF text = Raise
       THEN /\ Leave(CatchText)
            /\ log' = Append(log, "error")
            /\ UNCHANGED <<page_num, all_text>>
       ELSE /\ all_text' = IF DigitalKeep(text) THEN Append(all_text, text[2])
                           ELSE all_text
            /\ page_num' = page_num + 1
            /\ log' = Append(log, "info")
            /\ UNCHANGED <<pc, ret>>
    /\ Inside
    /\ UNCHANGED <<ocr_out, page_tables, all_tables>>

\* _extract_text_digital returns, and extract_text with it
text_digital_return ==
    /\ pc = "text_digital"
    /\ page_num = Len(doc.texts)
    /\ Leave(RetStr(Join(all_text, DigitalSep)))
    /\ log' = Append(log, "info")
    /\ Inside
    /\ UNCHANGED <<page_num, all_text, ocr_out, page_tables, all_tables>>

\* _extract_text_scanned: convert_from_path
text_scanned_rasterize(ok) ==
    /\ pc = "text_scanned"
    /\ IF ok
       THEN /\ pc' = "text_ocr"
            /\ UNCHANGED <<ret, log>>
       ELSE /\ Leave(RetStr(ScannedCatch(all_text)))
            /\ log' = log \o <<"error", "info">>
    /\ Inside
    /\ UNCHANGED <<page_num, all_text, ocr_out, page_tables, all_tables>>

\* _extract_text_scanned, one round of the loop over the images
text_ocr_page(text) ==
    /\ pc = "text_ocr"
    /\ page_num < Len(doc.texts)
    /\ IF text = Raise
       THEN /\ Leave(RetStr(ScannedCatch(all_text)))
            /\ log' = log \o <<"error", "info">>
            /\ UNCHANGED <<page_num, all_text, ocr_out>>
       ELSE /\ all_text' = Append(all_text, CleanOcr(text[2]))
            /\ ocr_out' = Append(ocr_out, text[2])
            /\ page_num' = page_num + 1
            /\ log' = Append(log, "info")
            /\ UNCHANGED <<pc, ret>>
    /\ Inside
    /\ UNCHANGED <<page_tables, all_tables>>

\* _extract_text_scanned returns, and extract_text with it
text_scanned_return ==
    /\ pc = "text_ocr"
    /\ page_num = Len(doc.texts)
    /\ Leave(RetStr(Join(all_text, ScannedSep)))
    /\ log' = Append(log, "info")
    /\ Inside
    /\ UNCHANGED <<page_num, all_text, ocr_out, page_tables, all_tables>>

\* extract_tables, the file is missing
extract_tables_missing(p) ==
    /\ ~Exists(p)
    /\ Enter("extract_tables", p, NoDoc)
    /\ log' = <<"error">>
    /\ Leave(RetList(<<>>))
    /\ UNCHANGED <<_extraction_mode, pdf_type>>

\* extract_tables, exists() raises: lines 99-102 are outside the try block
extract_tables_exists_raises(p) ==
    /\ ExistsMayRaise(p)
    /\ Enter("extract_tables", p, NoDoc)
    /\ Leave(RetRaise)
    /\ log' = <<>>
    /\ UNCHANGED <<_extraction_mode, pdf_type>>

\* extract_tables, up to the choice of the path; the scanned path returns
extract_tables_classify(p, d) ==
    /\ Exists(p)
    /\ Enter("extract_tables", p, d)
    /\ LET type == _detect_pdf_type(Self, d) IN
       /\ pdf_type' = type
       /\ _extraction_mode' = ModeAfterTables(p, type)
       /\ IF type = "digital"
          THEN /\ pc' = "tables_digital"
               /\ ret' = RetNone
               /\ log' = DetectLog(d) \o <<"info">>
          ELSE /\ Leave(RetList(<<>>))
               /\ log' = DetectLog(d) \o <<"info", "warning", "warning", "warning">>

\* _extract_tables_digital, one round of the loop over pdf.pages
tables_digital_page(tables) ==
    /\ pc = "tables_digital"
    /\ page_num < Len(doc.texts)
    /\ IF tables = Raise
       THEN /\ Leave(CatchTables)
            /\ log' = Append(log, "error")
            /\ UNCHANGED <<page_num, page_tables, all_tables>>
       ELSE /\ all_tables' = all_tables \o CleanPageTables(tables)
            /\ page_tables' = Append(page_tables, tables)
            /\ page_num' = page_num + 1
            /\ log' = log \o [i \in 1..Len(CleanPageTables(tables)) |-> "info"]
            /\ UNCHANGED <<pc, ret>>
    /\ Inside
    /\ UNCHANGED <<all_text, ocr_out>>

\* _extract_tables_digital returns, and extract_tables with it
tables_digital_return ==
    /\ pc = "tables_digital"
    /\ page_num = Len(doc.texts)
    /\ Leave(RetList(all_tables))
    /\ log' = Append(log, "info")
    /\ Inside
    /\ UNCHANGED <<page_num, all_text, ocr_out, page_tables, all_tables>>

\* the locals of a call are gone
locals_gone ==
    /\ pc' = "idle"
    /\ op' = "none"
    /\ pdf_path' = "none"
    /\ doc' = NoDoc
    /\ mode_at_entry' = _extraction_mode
    /\ page_num' = 0
    /\ all_text' = <<>>
    /\ ocr_out' = <<>>
    /\ page_tables' = <<>>
    /\ all_tables' = <<>>
    /\ ret' = RetNone
    /\ log' = <<>>
    /\ UNCHANGED <<_extraction_mode, pdf_type, pureVars>>

\* the caller has taken the result
call_over ==
    /\ pc = "done"
    /\ locals_gone
    /\ UNCHANGED <<fs, req>>

Next ==
    \/ \E p \in Paths : extract_text_missing(p)
    \/ \E p \in Paths : extract_text_exists_raises(p)
    \/ \E p \in Paths, d \in Docs : extract_text_classify(p, d)
    \/ text_digital_page
    \/ text_digital_return
    \/ \E ok \in BOOLEAN : text_scanned_rasterize(ok)
    \/ \E text \in OcrResults : text_ocr_page(text)
    \/ text_scanned_return
    \/ \E p \in Paths : extract_tables_missing(p)
    \/ \E p \in Paths : extract_tables_exists_raises(p)
    \/ \E p \in Paths, d \in Docs : extract_tables_classify(p, d)
    \/ \E tables \in PageTableResults : tables_digital_page(tables)
    \/ tables_digital_return
    \/ call_over

Spec == Init /\ [][Next]_vars

----------------------------------------------------------------------------
(* _detect_pdf_type on its own: first pages around the threshold *)

\* n characters of text, the second a blank when inner is set
Core(n, inner) == [i \in 1..n |-> IF inner /\ i = 2 THEN " " ELSE "a"]

DetectTexts ==
    {PyNone, Raise} \cup
    {Str(Rep(" ", lead) \o Core(n, inner) \o Rep("\n", trail)) :
        lead \in 0..MaxPad, trail \in 0..MaxPad, inner \in BOOLEAN,
        n \in {0, 1} \cup (TextThreshold - 1..TextThreshold + 2)}

LaterPages == {<<>>, <<PyNone>>, <<Str(LongText)>>, <<Raise>>}

DetectDocs ==
    {[opens |-> o, texts |-> <<>>] : o \in BOOLEAN} \cup
    {[opens |-> o, texts |-> <<first>> \o rest] :
        o \in BOOLEAN, first \in DetectTexts, rest \in LaterPages}

InitDetect == PipeInit /\ fn = "none" /\ arg \in DetectDocs /\ res = "none"

apply_detect ==
    /\ fn = "none"
    /\ fn' = "_detect_pdf_type"
    /\ res' = _detect_pdf_type(Self, arg)
    /\ UNCHANGED <<arg, pipeVars>>

NextDetect == apply_detect

SpecDetect == InitDetect /\ [][NextDetect]_vars

----------------------------------------------------------------------------
(* DataExporter._clean_sheet_name *)

Forbidden == {"\\", "/", "*", "?", "[", "]", ":"}

DefaultSheet == <<"S", "h", "e", "e", "t", "1">>

\* re.sub(r'[\\/*?\[\]:]', '', s)
RECURSIVE RemoveForbidden(_)
RemoveForbidden(s) ==
    IF s = <<>> THEN <<>>
    ELSE IF Head(s) \in Forbidden THEN RemoveForbidden(Tail(s))
    ELSE <<Head(s)>> \o RemoveForbidden(Tail(s))

\* s[:n]
Prefix(s, n) == IF Len(s) > n THEN SubSeq(s, 1, n) ELSE s

_clean_sheet_name_cut_first(sheet_name, max_length) ==
    LET cleaned == RemoveForbidden(Prefix(sheet_name, max_length)) IN
    IF Strip(cleaned) = <<>> THEN DefaultSheet ELSE cleaned

_clean_sheet_name(sheet_name, max_length) ==
    LET cleaned == Prefix(RemoveForbidden(sheet_name), max_length) IN
    IF Strip(cleaned) = <<>> THEN DefaultSheet ELSE cleaned

NameChars == {"a", " "} \cup Forbidden

\* names of three runs of one character each, the middle one around the
\* length limit
SheetNames ==
    {Rep(c1, n1) \o Rep(c2, n2) \o Rep(c3, n3) :
        c1 \in NameChars, c2 \in {"a", " ", "/"}, c3 \in NameChars,
        n1 \in 0..MaxRun, n3 \in 0..MaxRun,
        n2 \in {0} \cup (DefaultMaxLength - 1..DefaultMaxLength + 1)}

InitSheet == PipeInit /\ fn = "none" /\ arg \in SheetNames /\ res = <<>>

apply_clean_sheet_name ==
    /\ fn = "none"
    /\ fn' = "_clean_sheet_name"
    /\ res' = _clean_sheet_name(arg, DefaultMaxLength)
    /\ UNCHANGED <<arg, pipeVars>>

NextSheet == apply_clean_sheet_name

SpecSheet == InitSheet /\ [][NextSheet]_vars

----------------------------------------------------------------------------
(* The web layer: extract_pdf, the handler of /extract (src/app.py) *)

\* file_path of the n-th request: the uuid in it makes it a path of its own
UploadNames ==
    <<"uploads/1_x.pdf", "uploads/2_x.pdf", "uploads/3_x.pdf", "uploads/4_x.pdf">>
file_path(id) == UploadNames[id]

\* what the request carries: no 'pdf' part, an empty file name, a name that
\* does not end in .pdf, or a PDF upload
Uploads == {"no_file", "no_name", "not_pdf", "pdf"}

\* pdf_file.save(file_path): the file is written, written empty, or save
\* raises before or after it created the file
SaveOutcomes == {"saved", "saved_empty", "raise", "raise_created"}

\* the documents behind an upload
UploadDocs == {d \in Docs : Len(d.texts) <= MaxUploadPages}

\* where a return or an exception inside the try block goes: the finally
\* block runs before the answer leaves
AfterTryReturnSkipsOnError(status) == IF status = 200 THEN "finally" ELSE "responded"
AfterTry(status) == "finally"

\* the extractor call whose result the handler waits for has returned
ResultAwaited(method) ==
    /\ req.at = method
    /\ pc = "done"
    /\ op = method
    /\ pdf_path = file_path(req.id)

\* a step of the handler that is no step of the extractor
HandlerStep ==
    UNCHANGED <<_extraction_mode, mode_at_entry, pc, op, pdf_path, doc, pdf_type,
                page_num, all_text, ocr_out, page_tables, all_tables, ret, log,
                pureVars>>

\* the request arrives; the checks before the try block
extract_pdf_begin(upload, d) ==
    /\ req.at \in {"none", "responded"}
    /\ req.id < MaxRequests
    /\ req' = [id |-> req.id + 1,
               at |-> IF upload = "pdf" THEN "save" ELSE "responded",
               upload |-> d,
               saved |-> FALSE, empty |-> FALSE,
               status |-> IF upload = "pdf" THEN 0 ELSE 400,
               warned |-> FALSE]
    /\ UNCHANGED fs
    /\ HandlerStep

\* pdf_file.save(file_path)
extract_pdf_save(outcome) ==
    /\ req.at = "save"
    /\ fs' = IF outcome = "raise" THEN fs ELSE fs \cup {file_path(req.id)}
    /\ req' = IF outcome \in {"raise", "raise_created"}
              THEN [req EXCEPT !.at = AfterTry(500), !.status = 500,
                               !.saved = (outcome = "raise_created")]
              ELSE [req EXCEPT !.at = "check", !.saved = TRUE,
                               !.empty = (outcome = "saved_empty")]
    /\ HandlerStep

\* the file is there and is not empty
extract_pdf_check ==
    /\ req.at = "check"
    /\ req' = IF file_path(req.id) \notin fs
              THEN [req EXCEPT !.at = AfterTry(500), !.status = 500]
              ELSE IF req.empty
              THEN [req EXCEPT !.at = AfterTry(400), !.status = 400]
              ELSE [req EXCEPT !.at = "extract_text"]
    /\ UNCHANGED fs
    /\ HandlerStep

\* text = extractor.extract_text(file_path) has returned or raised; the
\* handler takes the result
extract_pdf_text_returned ==
    /\ ResultAwaited("extract_text")
    /\ req' = IF ret.kind = "raise"
              THEN [req EXCEPT !.at = AfterTry(500), !.status = 500]
              ELSE [req EXCEPT !.at = "extract_tables"]
    /\ UNCHANGED fs
    /\ locals_gone

\* tables = extractor.extract_tables(file_path) has returned or raised; the
\* answer is built
extract_pdf_tables_returned ==
    /\ ResultAwaited("extract_tables")
    /\ req' = IF ret.kind = "raise"
              THEN [req EXCEPT !.at = AfterTry(500), !.status = 500]
              ELSE [req EXCEPT !.at = AfterTry(200), !.status = 200]
    /\ UNCHANGED fs
    /\ locals_gone

\* the finally block: os.remove(file_path) when the file is there; a
\* failing os.remove is logged as a warning and the file stays; the answer
\* leaves and the upload of the request is gone
extract_pdf_finally(removed) ==
    /\ req.at = "finally"
    /\ IF file_path(req.id) \notin fs
       THEN /\ UNCHANGED fs
            /\ req' = [req EXCEPT !.at = "responded", !.upload = NoDoc]
       ELSE IF removed
       THEN /\ fs' = fs \ {file_path(req.id)}
            /\ req' = [req EXCEPT !.at = "responded", !.upload = NoDoc]
       ELSE /\ UNCHANGED fs
            /\ req' = [req EXCEPT !.at = "responded", !.upload = NoDoc,
                                  !.warned = TRUE]
    /\ HandlerStep

NextUpload ==
    \/ \E upload \in Uploads :
          \E d \in (IF upload = "pdf" THEN UploadDocs ELSE {NoDoc}) :
             extract_pdf_begin(upload, d)
    \/ \E outcome \in SaveOutcomes : extract_pdf_save(outcome)
    \/ extract_pdf_check
    \/ req.at = "extract_text" /\ extract_text_classify(file_path(req.id), req.upload)
    \/ text_digital_page
    \/ text_digital_return
    \/ \E ok \in BOOLEAN : text_scanned_rasterize(ok)
    \/ \E text \in OcrResults : text_ocr_page(text)
    \/ text_scanned_return
    \/ extract_pdf_text_returned
    \/ req.at = "extract_tables" /\ extract_tables_classify(file_path(req.id), req.upload)
    \/ \E tables \in PageTableResults : tables_digital_page(tables)
    \/ tables_digital_return
    \/ extract_pdf_tables_returned
    \/ \E removed \in BOOLEAN : extract_pdf_finally(removed)

SpecUpload == Init /\ [][NextUpload]_vars

----------------------------------------------------------------------------
(* The web layer: export_data, the handler of /export (src/app.py) *)

\* a JSON integer
JsonInt(n) == <<"int", n>>

Excel == <<"e", "x", "c", "e", "l">>
Csv == <<"c", "s", "v">>
Pdf == <<"p", "d", "f">>

\* the tables a client holds: lists of rows of cells
ExportTables == {<<<<"a">>>>, <<<<"b">>>>, <<<<"c">>, <<"d">>>>}

\* the JSON body of a request: none, {} or an object whose table_index and
\* format are null (or missing) or given, and whose tables is a list (the
\* empty list when missing)
Bodies ==
    [kind : {"none", "empty"}, table_index : {PyNone}, format : {PyNone},
     tables : {<<>>}]
    \cup
    [kind : {"object"},
     table_index : {PyNone} \cup {JsonInt(n) : n \in -(MaxTables + 1)..(MaxTables + 1)},
     format : {PyNone, Str(Excel), Str(Csv), Str(Pdf)},
     tables : UNION {[1..n -> ExportTables] : n \in 0..MaxTables}]

\* an answer: its status, its error message, the table handed to
\* export_table, and the download name's number and extension
Error(status, message) ==
    [status |-> status, error |-> message, table_data |-> <<>>,
     download_name |-> <<>>]
Download(table_data, number, ext) ==
    [status |-> 200, error |-> "none", table_data |-> table_data,
     download_name |-> <<"table_", number, ext>>]
NoAnswer == Error(0, "none")

\* tables[i] of Python for an int i: from the front for i >= 0, from the end
\* for i < 0, IndexError outside
InRange(tables, i) == -Len(tables) <= i /\ i < Len(tables)
Item(tables, i) == IF i >= 0 THEN tables[i + 1] ELSE tables[Len(tables) + i + 1]

\* `not tables or table_index >= len(tables)`
IndexRefused(tables, i) == tables = <<>> \/ i >= Len(tables)

export_data(data) ==
    IF data.kind \in {"none", "empty"}
    THEN Error(400, "No data provided")
    ELSE IF data.table_index = PyNone \/ data.format = PyNone
    THEN Error(400, "Missing required parameters")
    ELSE IF IndexRefused(data.tables, data.table_index[2])
    THEN Error(400, "Invalid table index")
    ELSE IF ~InRange(data.tables, data.table_index[2])
    THEN Error(500, "Export failed: list index out of range")
    ELSE IF data.format = Str(Excel)
    THEN Download(Item(data.tables, data.table_index[2]),
                  data.table_index[2] + 1, ".xlsx")
    ELSE IF data.format = Str(Csv)
    THEN Download(Item(data.tables, data.table_index[2]),
                  data.table_index[2] + 1, ".csv")
    ELSE Error(400, "Unsupported format")

InitExport == PipeInit /\ fn = "none" /\ arg \in Bodies /\ res = NoAnswer

apply_export_data ==
    /\ fn = "none"
    /\ fn' = "export_data"
    /\ res' = export_data(arg)
    /\ UNCHANGED <<arg, pipeVars>>

NextExport == apply_export_data

SpecExport == InitExport /\ [][NextExport]_vars

----------------------------------------------------------------------------
(* What the claims are stated with *)

Range(f) == {f[i] : i \in DOMAIN f}

RECURSIVE SumLen(_)
SumLen(parts) == IF parts = <<>> THEN 0 ELSE Len(Head(parts)) + SumLen(Tail(parts))

\* where part i starts in the parts joined by sep (0-based offset)
Offset(parts, sep, i) == SumLen(SubSeq(parts, 1, i - 1)) + (i - 1) * Len(sep)

\* s is the parts in order with sep between neighbours, and nothing else
IsJoinOf(s, parts, sep) ==
    /\ Len(s) = SumLen(parts) + (IF parts = <<>> THEN 0 ELSE (Len(parts) - 1) * Len(sep))
    /\ \A i \in 1..Len(parts) :
          LET o == Offset(parts, sep, i) IN
          /\ SubSeq(s, o + 1, o + Len(parts[i])) = parts[i]
          /\ i < Len(parts) =>
                SubSeq(s, o + Len(parts[i]) + 1, o + Len(parts[i]) + Len(sep)) = sep

\* t is s without its leading and trailing whitespace
IsTrimOf(t, s) ==
    \E i \in 1..Len(s) + 1 : \E j \in i - 1..Len(s) :
        /\ t = SubSeq(s, i, j)
        /\ \A k \in 1..i - 1 : IsSpace(s[k])
        /\ \A k \in j + 1..Len(s) : IsSpace(s[k])
        /\ t # <<>> => ~IsSpace(t[1]) /\ ~IsSpace(t[Len(t)])

\* a call of method has returned on the path it took after classifying
Returned(method) == pc = "done" /\ op = method
Classified == pc = "done" /\ pdf_path \in fs

----------------------------------------------------------------------------
(* C1: no call of extract_text or extract_tables ends in an exception,    *)
(* whatever sub-step fails: extract_text returns a string and             *)
(* extract_tables returns a list.                                         *)
C1_NeverRaises ==
    /\ ret.kind # "raise"
    /\ Returned("extract_text") => ret.kind = "str"
    /\ Returned("extract_tables") => ret.kind = "list"

\* beside C1: the one exception that leaves a call is the OSError of the
\* existence check; every later failure ends in a str or a list
OnlyExistsRaises ==
    (pc = "done" /\ ret.kind = "raise") => (pdf_path \in StatRefused /\ log = <<>>)

(* C2: between calls get_extraction_mode is 'digital', 'scanned' or       *)
(* 'unknown', and once a call has classified a document it is the result  *)
(* of the latest classification.                                          *)
C2_ModeIsLastClassification ==
    pc \in {"done", "idle"} =>
        /\ get_extraction_mode \in {"digital", "scanned", "unknown"}
        /\ pdf_type # "none" => get_extraction_mode = pdf_type

(* C4: on the scanned path, when rasterization or the recognition of any  *)
(* page fails, extract_text returns exactly the sentinel string.          *)
C4_SentinelOnOcrFailure ==
    (/\ Returned("extract_text")
     /\ Classified
     /\ pdf_type = "scanned"
     /\ "error" \in Range(log))
        => ret = RetStr(Sentinel)

\* the second page fails after the first was recognized with text
C4_Witness ==
    /\ Returned("extract_text")
    /\ Classified
    /\ pdf_type = "scanned"
    /\ "error" \in Range(log)
    /\ Len(all_text) = 1
    /\ all_text[1] # <<>>
    /\ page_num < Len(doc.texts)
    /\ ret = RetStr(Sentinel)

(* C5: a call on a path that is no existing file logs an error and        *)
(* returns "" (extract_text) or [] (extract_tables); it classifies        *)
(* nothing and starts no extraction path.                                 *)
C5_MissingFile ==
    [][(pc = "idle" /\ pdf_path' \notin fs) =>
          /\ pc' = "done"
          /\ log' = <<"error">>
          /\ pdf_type' = pdf_type
          /\ _extraction_mode' = _extraction_mode
          /\ \/ op' = "extract_text" /\ ret' = RetStr(<<>>)
             \/ op' = "extract_tables" /\ ret' = RetList(<<>>)]_vars

\* the page texts a digital run has to return: those that are not None and
\* not empty
HasText(text) == text[1] = "str" /\ Len(text[2]) > 0
PagesWithText(d) ==
    LET pages == SelectSeq(d.texts, HasText) IN
    [i \in 1..Len(pages) |-> pages[i][2]]

\* beside C5: a call on a missing file that returns at all does what C5 says
MissingFileWhenExistsAnswers ==
    [][(pc = "idle" /\ pdf_path' \notin fs /\ ret'.kind # "raise") =>
          /\ pc' = "done"
          /\ log' = <<"error">>
          /\ pdf_type' = pdf_type
          /\ _extraction_mode' = _extraction_mode
          /\ \/ op' = "extract_text" /\ ret' = RetStr(<<>>)
             \/ op' = "extract_tables" /\ ret' = RetList(<<>>)]_vars

(* C8: extract_text joins the per-page texts in page order: on the        *)
(* digital path the non-empty page texts with a single "\n" between them  *)
(* ("" when there is none), on the scanned path the cleaned recognized    *)
(* text of every page with "\n\n" between them.                           *)
C8_PageJoin ==
    (Returned("extract_text") /\ Classified /\ "error" \notin Range(log)) =>
        /\ pdf_type = "digital" =>
              IsJoinOf(ret.text, PagesWithText(doc), <<"\n">>)
        /\ pdf_type = "scanned" =>
              /\ Len(ocr_out) = Len(doc.texts)
              /\ IsJoinOf(ret.text, [i \in 1..Len(ocr_out) |-> CleanOcr(ocr_out[i])],
                       <<"\n", "\n">>)

\* two recognized pages, the first of two lines
C8_Witness ==
    /\ Returned("extract_text")
    /\ Classified
    /\ pdf_type = "scanned"
    /\ Len(ocr_out) = 2
    /\ ret.text = <<"a", "\n", "b", "\n", "\n", "c">>

\* the classification of d, whatever the extractor holds
DetectFresh(d) == _detect_pdf_type([_extraction_mode |-> "unknown"], d)

(* C9: every call classifies the document it is given and takes the path  *)
(* of that classification, whatever the stored mode and the earlier calls *)
(* were; extract_tables on a document it classifies as scanned returns [] *)
C9_ClassifiedPerCall ==
    [][(pc = "idle" /\ pdf_path' \in fs) =>
          LET type == DetectFresh(doc') IN
          /\ pdf_type' = type
          /\ (op' = "extract_tables" /\ type = "scanned") =>
                pc' = "done" /\ ret' = RetList(<<>>)
          /\ (op' = "extract_tables" /\ type = "digital") =>
                pc' = "tables_digital"
          /\ (op' = "extract_text" /\ type = "scanned") => pc' = "text_scanned"
          /\ (op' = "extract_text" /\ type = "digital") => pc' = "text_digital"]_vars

\* extract_tables finds a scanned document right after a digital one
C9_Witness ==
    /\ Returned("extract_tables")
    /\ Classified
    /\ mode_at_entry = "digital"
    /\ pdf_type = "scanned"
    /\ doc.opens
    /\ doc.texts # <<>>
    /\ ret = RetList(<<>>)

\* the table candidates of a digital run, in page order, and their rows
RECURSIVE Flatten(_)
Flatten(xss) == IF xss = <<>> THEN <<>> ELSE Head(xss) \o Flatten(Tail(xss))

ListItems(v) == IF v[1] = "list" THEN v[2] ELSE <<>>
Candidates == Flatten([i \in 1..Len(page_tables) |-> ListItems(page_tables[i])])

\* a source row that is null, empty, or made up only of null cells
IsNullRow(row) ==
    \/ row = PyNone
    \/ row[2] = <<>>
    \/ \A c \in 1..Len(row[2]) : row[2][c] = PyNone
NotNullRow(row) == ~IsNullRow(row)

\* a source row that is null or empty
IsAbsentRow(row) == row = PyNone \/ row[2] = <<>>
Present(row) == ~IsAbsentRow(row)
PresentRows(table) == SelectSeq(table, Present)
HasPresentRow(table) == PresentRows(table) # <<>>

TablesDone ==
    /\ Returned("extract_tables")
    /\ Classified
    /\ pdf_type = "digital"
    /\ "error" \notin Range(log)

(* C6: a source row that is null, empty, or made up only of null cells    *)
(* contributes no row to any returned table: the returned tables hold     *)
(* one row for each other source row and no more.                         *)
C6_NoNullRows ==
    TablesDone =>
        Len(Flatten(ret.tables)) = Len(SelectSeq(Flatten(Candidates), NotNullRow))

(* C7: every returned table has at least one row; it is a candidate with  *)
(* the null and empty rows dropped, each kept row cell for cell: a null   *)
(* cell is "" and any other cell its text without the surrounding         *)
(* whitespace.                                                            *)
C7_TablesCellForCell ==
    TablesDone =>
        LET kept == SelectSeq(Candidates, HasPresentRow) IN
        /\ Len(ret.tables) = Len(kept)
        /\ \A t \in 1..Len(ret.tables) :
              LET rows == PresentRows(kept[t]) IN
              /\ Len(ret.tables[t]) >= 1
              /\ Len(ret.tables[t]) = Len(rows)
              /\ \A r \in 1..Len(rows) :
                    /\ Len(ret.tables[t][r]) = Len(rows[r][2])
                    /\ \A c \in 1..Len(rows[r][2]) :
                          IF rows[r][2][c] = PyNone
                          THEN ret.tables[t][r][c] = <<>>
                          ELSE IsTrimOf(ret.tables[t][r][c], rows[r][2][c][2])

\* a row whose first cell is null and whose second is trimmed, after a
\* candidate that cleaned to nothing
C7_Witness ==
    /\ TablesDone
    /\ page_tables = <<List(<<TableB, TableA>>), List(<<TableD>>)>>
    /\ ret.tables = << << <<<<"x">>, <<>>>> >>,
                       << <<<<>>, <<"y">>, <<>>>>, <<<<>>>> >> >>

\* the length of s without its leading and trailing whitespace
LeadWs(s) ==
    CHOOSE k \in 0..Len(s) :
        /\ \A i \in 1..k : IsSpace(s[i])
        /\ k = Len(s) \/ ~IsSpace(s[k + 1])
TrailWs(s) ==
    CHOOSE k \in 0..Len(s) :
        /\ \A i \in Len(s) - k + 1..Len(s) : IsSpace(s[i])
        /\ k = Len(s) \/ ~IsSpace(s[Len(s) - k])
TrimmedLen(s) == IF LeadWs(s) = Len(s) THEN 0 ELSE Len(s) - LeadWs(s) - TrailWs(s)

(* C3: _detect_pdf_type returns 'digital' exactly when the document       *)
(* opens, has a first page, and the text of that page has more than 50    *)
(* characters once trimmed; in every other case it returns 'scanned'.     *)
(* Later pages play no part.                                              *)
C3_DigitalIffLongFirstPage ==
    fn = "_detect_pdf_type" =>
        /\ res \in {"digital", "scanned"}
        /\ res = "digital" <=>
              /\ arg.opens
              /\ Len(arg.texts) >= 1
              /\ arg.texts[1][1] = "str"
              /\ TrimmedLen(arg.texts[1][2]) > 50

\* exactly 50 characters between the padding, and a long second page
C3_Witness ==
    /\ fn = "_detect_pdf_type"
    /\ arg.opens
    /\ Len(arg.texts) = 2
    /\ arg.texts[1][1] = "str"
    /\ Len(arg.texts[1][2]) > 50
    /\ TrimmedLen(arg.texts[1][2]) = 50
    /\ arg.texts[2] = Str(LongText)
    /\ res = "scanned"

\* the name without the characters \ / * ? [ ] : and cut to 31 characters
NotForbidden(c) == c \notin {"\\", "/", "*", "?", "[", "]", ":"}
Stripped31(name) ==
    LET kept == SelectSeq(name, NotForbidden) IN
    SubSeq(kept, 1, IF Len(kept) < 31 THEN Len(kept) ELSE 31)
AllBlank(s) == \A i \in 1..Len(s) : IsSpace(s[i])

SheetNameIsValid ==
    /\ \A i \in 1..Len(res) : NotForbidden(res[i])
    /\ Len(res) <= 31
    /\ res # <<>>

(* C10 as claimed: the cleaned sheet name has no forbidden character, at  *)
(* most 31 characters and is not empty; it is the name without the        *)
(* forbidden characters cut to 31 characters, or "Sheet1" when that       *)
(* leaves nothing.                                                        *)
C10_Original ==
    fn = "_clean_sheet_name" =>
        /\ SheetNameIsValid
        /\ res = IF Stripped31(arg) = <<>> THEN DefaultSheet ELSE Stripped31(arg)

(* C10 as amended: ... or "Sheet1" when that leaves nothing but           *)
(* whitespace (the empty name included).                                  *)
C10_CleanSheetName ==
    fn = "_clean_sheet_name" =>
        /\ SheetNameIsValid
        /\ res = IF AllBlank(Stripped31(arg)) THEN DefaultSheet ELSE Stripped31(arg)

\* a name with forbidden characters that is still too long without them
C10_Witness ==
    /\ fn = "_clean_sheet_name"
    /\ \E i \in 1..Len(arg) : arg[i] = ":"
    /\ \E i \in 1..Len(arg) : arg[i] = "/"
    /\ Len(Stripped31(arg)) = 31
    /\ Len(SelectSeq(arg, NotForbidden)) > 31
    /\ res = Stripped31(arg)

----------------------------------------------------------------------------
(* C11: the upload layer owns the file's lifecycle *)

\* an extractor call is running
InCall == pc \notin {"idle", "done"}

\* the request has been answered
Responded == req.at = "responded"

\* C11 as the specification states it: in every /extract request that saves an
\* uploaded file, the file is there while extract_text and extract_tables run
\* and is deleted once the request is answered, whatever the outcome
C11_Original ==
    /\ InCall => file_path(req.id) \in fs
    /\ Responded /\ req.saved => file_path(req.id) \notin fs

\* the file is created before the calls: while extract_text or extract_tables
\* runs, it runs on the saved upload of the request and the file is there
C11_CreatedBeforeCalls ==
    InCall =>
        /\ req.at \in {"extract_text", "extract_tables"}
        /\ op = req.at
        /\ pdf_path = file_path(req.id)
        /\ req.saved
        /\ pdf_path \in fs

\* once the request is answered the file is gone, unless its removal failed,
\* and then the failure was logged
C11_DeletedUnlessRemovalFailed ==
    /\ Responded /\ req.saved /\ ~req.warned => file_path(req.id) \notin fs
    /\ req.warned => Responded /\ req.saved /\ file_path(req.id) \in fs

\* the steps of extract_text and extract_tables leave the file system alone
C11_CoreLeavesFiles ==
    <<pc, op, page_num>>' # <<pc, op, page_num>> => fs' = fs

\* C11 (amended): in every /extract request that saves an uploaded file, the
\* file is created before extract_text/extract_tables are called; after them,
\* in every outcome, the handler tries to delete it, and it is gone when the
\* request is answered unless that removal itself failed, in which case a
\* warning is logged and the file stays; extract_text and extract_tables
\* themselves never create, modify or delete the file
C11_UploadOwnsLifecycle ==
    /\ [](C11_CreatedBeforeCalls /\ C11_DeletedUnlessRemovalFailed)
    /\ [][C11_CoreLeavesFiles]_vars

\* a request whose upload was saved, went through both calls (only then is
\* the answer 200), was answered and whose file is gone
C11_Witness ==
    /\ Responded
    /\ req.saved
    /\ req.status = 200
    /\ _extraction_mode \in {"digital", "scanned"}
    /\ file_path(req.id) \notin fs

----------------------------------------------------------------------------
(* C12: /export exports only at a valid position *)

\* /export has answered a request that gives a table_index and a format
Exported == fn = "export_data" /\ arg.kind = "object" /\ arg.table_index # PyNone /\ arg.format # PyNone

\* 0 <= table_index < len(tables)
ValidPosition == 0 <= arg.table_index[2] /\ arg.table_index[2] < Len(arg.tables)

\* C12: /export exports a table only when 0 <= table_index < len(tables); for
\* every other table_index, negative ones included, with a format given, it
\* answers 400 'Invalid table index' and exports nothing
C12_ExportOnlyAtValidPosition ==
    Exported =>
        /\ res.status = 200 => ValidPosition
        /\ ~ValidPosition =>
              /\ res.status = 400
              /\ res.error = "Invalid table index"
              /\ res.table_data = <<>>

\* what /export does with a table_index: at or past the end it answers 400
\* 'Invalid table index'; a negative one that tables[table_index] accepts is
\* exported from the end of the list under the number table_index + 1; a
\* negative one below -len(tables) is answered with 500
ExportAsCoded ==
    Exported =>
        /\ arg.table_index[2] >= Len(arg.tables) =>
              res = Error(400, "Invalid table index")
        /\ arg.tables # <<>> /\ arg.table_index[2] < -Len(arg.tables) =>
              res.status = 500
        /\ res.status = 200 =>
              /\ InRange(arg.tables, arg.table_index[2])
              /\ res.table_data = Item(arg.tables, arg.table_index[2])
              /\ res.download_name[2] = arg.table_index[2] + 1

\* table_index = -1 with one table and format csv: the table is exported as
\* table_0.csv
ExportedFromTheEnd ==
    /\ Exported
    /\ arg.table_index = JsonInt(-1)
    /\ Len(arg.tables) = 1
    /\ res.status = 200
    /\ res.table_data = arg.tables[1]
    /\ res.download_name = <<"table_", 0, ".csv">>

====
